---- MODULE Spec2Model ----
(***************************************************************************)
(* A model of plot_intensity.py: the text parser (find_labels_and_data_-   *)
(* start, load_data) and the command-line driver with its three renderers  *)
(* (plot_multiple, plot_waterfall, plot_difference).                       *)
(*                                                                         *)
(* Text is modelled character by character: a string is a sequence of      *)
(* one-character strings, a file is a sequence of such lines.  Numbers are *)
(* the integers written with the digits 0-9 and an optional sign; the      *)
(* plotting library is reduced to the record of what was handed to it.     *)
(***************************************************************************)
EXTENDS Integers, Sequences, FiniteSets, TLC

\* ------------------------------------------------------------------------
\* Bounds of the model
\* ------------------------------------------------------------------------

\* Largest number of lines of a file given to the parser.
MaxLines == 3

\* Largest number of command-line arguments.
MaxArgs == 4

\* ------------------------------------------------------------------------
\* Strings
\* ------------------------------------------------------------------------

\* The characters Python's str.strip() removes and the regex class \s matches.
Whitespace == {" ", "\t"}

\* The separator class of the regular expression [,\s]+ .
CommaOrSpace == Whitespace \cup {","}

Digits == {"0", "1", "2", "3", "4", "5", "6", "7", "8", "9"}

DigitVal(c) ==
    CASE c = "0" -> 0 [] c = "1" -> 1 [] c = "2" -> 2 [] c = "3" -> 3
      [] c = "4" -> 4 [] c = "5" -> 5 [] c = "6" -> 6 [] c = "7" -> 7
      [] c = "8" -> 8 [] c = "9" -> 9

RECURSIVE lstrip(_)
lstrip(s) ==
    IF s = <<>> THEN s
    ELSE IF Head(s) \in Whitespace THEN lstrip(Tail(s)) ELSE s

RECURSIVE rstrip(_)
rstrip(s) ==
    IF s = <<>> THEN s
    ELSE IF s[Len(s)] \in Whitespace THEN rstrip(SubSeq(s, 1, Len(s) - 1)) ELSE s

\* str.strip()
strip(s) == rstrip(lstrip(s))

\* str.startswith(prefix)
startswith(s, prefix) ==
    /\ Len(s) >= Len(prefix)
    /\ SubSeq(s, 1, Len(prefix)) = prefix

\* The first index >= i of s that holds no character of seps (Len(s)+1 if none).
RECURSIVE SkipRun(_, _, _)
SkipRun(s, seps, i) ==
    IF i > Len(s) \/ s[i] \notin seps THEN i ELSE SkipRun(s, seps, i + 1)

\* re.split(seps+, s) from index i on, cur being the piece under construction:
\* every maximal run of separators ends a piece, so a leading or a trailing
\* run yields an empty piece, and the empty string yields one empty piece.
RECURSIVE SplitFrom(_, _, _, _)
SplitFrom(s, seps, i, cur) ==
    IF i > Len(s) THEN <<cur>>
    ELSE IF s[i] \in seps
         THEN <<cur>> \o SplitFrom(s, seps, SkipRun(s, seps, i), <<>>)
         ELSE SplitFrom(s, seps, i + 1, Append(cur, s[i]))

\* re.split(r"[,\s]+", s)
re_split(s) == SplitFrom(s, CommaOrSpace, 1, <<>>)

AllDigits(s) == \A k \in 1..Len(s) : s[k] \in Digits

\* Whether float(p) returns (TRUE) or raises ValueError (FALSE).
IsFloat(p) ==
    /\ p # <<>>
    /\ IF p[1] \in {"-", "+"}
       THEN Len(p) >= 2 /\ AllDigits(Tail(p))
       ELSE AllDigits(p)

RECURSIVE DecVal(_)
DecVal(s) ==
    IF s = <<>> THEN 0
    ELSE 10 * DecVal(SubSeq(s, 1, Len(s) - 1)) + DigitVal(s[Len(s)])

\* float(p), for a p that parses.
ToFloat(p) ==
    IF p[1] = "-" THEN 0 - DecVal(Tail(p))
    ELSE IF p[1] = "+" THEN DecVal(Tail(p))
    ELSE DecVal(p)

\* ------------------------------------------------------------------------
\* find_labels_and_data_start
\* ------------------------------------------------------------------------

NoNumericData == "No numeric data found in file."

\* A wrong label text: the remainder of the label line is not stripped.
LabelAfterUnstripped(stripped, label_line) ==
    IF startswith(stripped, <<"#", "L">>)
    THEN SubSeq(stripped, 3, Len(stripped))
    ELSE label_line

\* The label text after line `stripped` has been looked at.
LabelAfter(stripped, label_line) ==
    IF startswith(stripped, <<"#", "L">>)
    THEN strip(SubSeq(stripped, 3, Len(stripped)))
    ELSE label_line

\* The numeric test of the scan: the line is not blank and float() accepts
\* every piece re.split returns.
IsNumericLine(stripped) ==
    LET parts == re_split(stripped)
    IN  /\ parts # <<>>
        /\ parts # << <<>> >>
        /\ \A k \in 1..Len(parts) : IsFloat(parts[k])

\* The for loop, from line i (1-based here) on.  data_start_idx is the
\* 0-based index the code returns.
RECURSIVE ScanLines(_, _, _)
ScanLines(lines, i, label_line) ==
    IF i > Len(lines)
    THEN [raised |-> NoNumericData, label_line |-> <<>>, data_start_idx |-> -1]
    ELSE LET stripped == strip(lines[i])
             label == LabelAfter(stripped, label_line)
         IN  IF IsNumericLine(stripped)
             THEN [raised |-> "none", label_line |-> label, data_start_idx |-> i - 1]
             ELSE ScanLines(lines, i + 1, label)

find_labels_and_data_start(lines) == ScanLines(lines, 1, <<>>)

\* ------------------------------------------------------------------------
\* numpy.loadtxt(lines, delimiter=None)
\* ------------------------------------------------------------------------

\* The part of a line before the first comment character "#".
RECURSIVE BeforeComment(_)
BeforeComment(s) ==
    IF s = <<>> \/ Head(s) = "#" THEN <<>>
    ELSE <<Head(s)>> \o BeforeComment(Tail(s))

NonEmpty(t) == t # <<>>

\* str.split(): the non-empty pieces between runs of whitespace.
ws_split(s) == SelectSeq(SplitFrom(s, Whitespace, 1, <<>>), NonEmpty)

\* The rows loadtxt reads: comments removed, the line split on whitespace,
\* lines left without a field skipped.
TextRows(data_lines) ==
    SelectSeq([k \in 1..Len(data_lines) |-> ws_split(BeforeComment(data_lines[k]))],
              NonEmpty)

\* loadtxt: a field that is no number, or rows of different widths, raise;
\* otherwise the table is squeezed, so that a table of one row or of one
\* column comes back one-dimensional and a single number zero-dimensional.
loadtxt(data_lines) ==
    LET rows == TextRows(data_lines)
        nrows == Len(rows)
        ncols == IF nrows = 0 THEN 0 ELSE Len(rows[1])
    IN  IF \/ \E r \in 1..nrows : \E c \in 1..Len(rows[r]) : ~IsFloat(rows[r][c])
           \/ \E r \in 1..nrows : Len(rows[r]) # ncols
        THEN [raised |-> TRUE, ndim |-> 0, nrows |-> 0, ncols |-> 0, rows |-> <<>>]
        ELSE [raised |-> FALSE,
              ndim   |-> IF nrows = 0 THEN 1
                         ELSE (IF nrows > 1 THEN 1 ELSE 0) + (IF ncols > 1 THEN 1 ELSE 0),
              nrows  |-> nrows,
              ncols  |-> ncols,
              rows   |-> [r \in 1..nrows |-> [c \in 1..ncols |-> ToFloat(rows[r][c])]]]

\* ------------------------------------------------------------------------
\* load_data
\* ------------------------------------------------------------------------

ReadError == "error reading numeric data"
TwoColumnsError == "file must have at least two numeric columns."
IndexError == "IndexError: tuple index out of range"

\* A wrong slice: lines[start_idx + 1:]
DataLinesOffByOne(file_lines, start_idx) ==
    SubSeq(file_lines, start_idx + 2, Len(file_lines))

\* lines[start_idx:]
DataLines(file_lines, start_idx) ==
    SubSeq(file_lines, start_idx + 1, Len(file_lines))

\* data[:, c] with c counted from 0
Column(data, c) == [r \in 1..data.nrows |-> data.rows[r][c + 1]]

Failure(msg) ==
    [raised |-> msg, x |-> <<>>, y |-> <<>>, xlabel |-> <<>>, ylabel |-> <<>>]

load_data(file_lines) ==
    LET loc == find_labels_and_data_start(file_lines)
    IN  IF loc.raised # "none" THEN Failure(loc.raised)
        ELSE
        LET labels == re_split(loc.label_line)
            xlabel == IF Len(labels) >= 1 THEN labels[1] ELSE <<"X">>
            ylabel == IF Len(labels) >= 2 THEN labels[2] ELSE <<"Y">>
            data == loadtxt(DataLines(file_lines, loc.data_start_idx))
        IN  IF data.raised THEN Failure(ReadError)
            ELSE IF data.ndim = 1 THEN Failure(TwoColumnsError)
            ELSE IF data.ndim = 0 THEN Failure(IndexError)
            ELSE IF data.ncols < 2 THEN Failure(TwoColumnsError)
            ELSE [raised |-> "none", x |-> Column(data, 0), y |-> Column(data, 1),
                  xlabel |-> xlabel, ylabel |-> ylabel]

\* ------------------------------------------------------------------------
\* Parser inputs and the parser harness
\* ------------------------------------------------------------------------

LinePool == {
    <<>>,
    <<" ", "\t">>,
    <<"#", "L", " ", "q", " ", "I">>,
    <<" ", "#", "L", "t", ",", "s", " ">>,
    <<"#", "L", " ", "q">>,
    <<"#", "L">>,
    <<"#", "l", " ", "a", " ", "b">>,
    <<"r", "u", "n", " ", "7">>,
    <<"1", " ", "2">>,
    <<" ", "2", "\t", "-", "5", " ">>,
    <<"3">>,
    <<"1", ",", "2">>,
    <<"4", ",", " ", "6">>,
    <<"1", " ", "2", " ", "3">>,
    <<"1", " ", "x">>,
    <<"1", ",">>
}

Files == UNION {[1..n -> LinePool] : n \in 0..MaxLines}

\* ------------------------------------------------------------------------
\* Arithmetic of the renderers: exact fractions [n, d] in lowest terms
\* ------------------------------------------------------------------------

Abs(a) == IF a < 0 THEN 0 - a ELSE a

RECURSIVE Gcd(_, _)
Gcd(a, b) == IF b = 0 THEN a ELSE Gcd(b, a % b)

Rat(n, d) ==
    LET g == Gcd(Abs(n), Abs(d))
        sgn == IF d < 0 THEN -1 ELSE 1
    IN  [n |-> sgn * (n \div g), d |-> sgn * (d \div g)]

FromInt(a) == [n |-> a, d |-> 1]
RatAdd(p, q) == Rat(p.n * q.d + q.n * p.d, p.d * q.d)
RatSub(p, q) == Rat(p.n * q.d - q.n * p.d, p.d * q.d)
RatMul(p, q) == Rat(p.n * q.n, p.d * q.d)
RatLeq(p, q) == p.n * q.d <= q.n * p.d

\* An integer array as an array of fractions.
AsRats(a) == [k \in 1..Len(a) |-> FromInt(a[k])]

\* np.nanmax(y) and np.nanmin(y); the modelled values are never NaN.
nanmax(y) == CHOOSE v \in {y[k] : k \in 1..Len(y)} : \A k \in 1..Len(y) : RatLeq(y[k], v)
nanmin(y) == CHOOSE v \in {y[k] : k \in 1..Len(y)} : \A k \in 1..Len(y) : RatLeq(v, y[k])

\* ------------------------------------------------------------------------
\* The files on disk and the command line
\* ------------------------------------------------------------------------

\* A file name is the sequence of its parts, so that a substring test of the
\* code is a test for a part.
FlagDiff == <<"--diff">>
FlagWaterfall == <<"--waterfall">>
NameS1 == <<"s1", "_2025", "a">>
NameDofr == <<"s2", ".dofr">>
NameParacetamol == <<"Paracetamol", "_2025">>
NameLts == <<"LTS_HME_PCM_AFF_", "b", "_2025", "c">>
NameNotes == <<"notes">>
NameOneCol == <<"onecol">>
NameComma == <<"comma">>
NameGone == <<"gone">>

\* The files that exist, with their lines.
Disk ==
    (NameS1 :> << <<"#", "L", " ", "q", " ", "I">>,
                  <<"1", " ", "2">>,
                  <<"2", " ", "5">> >>) @@
    (NameDofr :> << <<"#", "L", "r", ",", "G">>,
                    <<"0", " ", "8">>,
                    <<"3", " ", "2">> >>) @@
    (NameParacetamol :> << <<"1", " ", "4">>,
                           <<"2", " ", "4">>,
                           <<"3", " ", "7">> >>) @@
    (NameLts :> << <<"#", "L", " ", "t">>,
                   <<"1", " ", "1">>,
                   <<"2", " ", "3">> >>) @@
    (NameNotes :> << <<"r", "u", "n", " ", "7">> >>) @@
    (NameOneCol :> << <<"3">>,
                      <<"4">> >>) @@
    (NameComma :> << <<"1", ",", "2">>,
                     <<"2", ",", "6">> >>)

\* Path.exists()
exists(path) == path \in DOMAIN Disk

\* What load_data makes of each file on disk.
LoadedFromDisk == [path \in DOMAIN Disk |-> load_data(Disk[path])]

\* load_data(path): filename.read_text().splitlines() and the rest.
load_path(path) == LoadedFromDisk[path]

\* What may stand on the command line: first a flag or a file name, then
\* names of files that exist and of one that does not.
FilePool == {NameGone} \cup DOMAIN Disk
ArgPool == {FlagDiff, FlagWaterfall} \cup FilePool

ArgLists ==
    {<<>>} \cup
    {<<first>> \o rest : first \in ArgPool,
                         rest \in UNION {[1..n -> FilePool] : n \in 0..(MaxArgs - 1)}}

\* ------------------------------------------------------------------------
\* State
\* ------------------------------------------------------------------------

VARIABLES
    lines,      \* parser harness: the lines given to the parser
    found,      \* parser harness: what find_labels_and_data_start returned
    loaded,     \* parser harness: what load_data returned
    args,       \* sys.argv[1:]
    pc,         \* where the process is
    files,      \* the files argument of the running renderer
    i,          \* position of the loop over files (1-based)
    xlabel,     \* local xlabel of the running renderer
    ylabel,     \* local ylabel of the running renderer
    data_list,  \* plot_waterfall: the loaded (name, x, y)
    k,          \* plot_waterfall: position of the loop over data_list
    offset,     \* plot_waterfall: the running offset
    plotted,    \* the plt.plot calls made: [src, x, y, label]
    axes,       \* the plt.xlabel / plt.ylabel calls made
    printed,    \* the messages printed
    shown,      \* whether plt.show() was called
    exit_code   \* the exit code of the process, -1 while it runs

loadvars == <<lines, found, loaded>>
mainvars == <<args, pc, files, i, xlabel, ylabel, data_list, k, offset,
              plotted, axes, printed, shown, exit_code>>
vars == <<lines, found, loaded, args, pc, files, i, xlabel, ylabel, data_list, k,
          offset, plotted, axes, printed, shown, exit_code>>

NotCalled == [raised |-> "not called", label_line |-> <<>>, data_start_idx |-> -1]
NotLoaded == Failure("not called")

NoAxes == [xlabel |-> <<>>, ylabel |-> <<>>, set |-> FALSE]

\* The process before main() runs, whatever the command line.
ProcessStart(argv) ==
    /\ args = argv
    /\ pc = "main"
    /\ files = <<>>
    /\ i = 1
    /\ xlabel = <<>>
    /\ ylabel = <<>>
    /\ data_list = <<>>
    /\ k = 1
    /\ offset = FromInt(0)
    /\ plotted = <<>>
    /\ axes = NoAxes
    /\ printed = <<>>
    /\ shown = FALSE
    /\ exit_code = -1

\* ------------------------------------------------------------------------
\* The parser called on its own
\* ------------------------------------------------------------------------

InitLoad ==
    /\ lines \in Files
    /\ found = NotCalled
    /\ loaded = NotLoaded
    /\ ProcessStart(<<>>)

CallFind ==
    /\ found = NotCalled
    /\ found' = find_labels_and_data_start(lines)
    /\ UNCHANGED <<lines, loaded>>
    /\ UNCHANGED mainvars

CallLoad ==
    /\ loaded = NotLoaded
    /\ loaded' = load_data(lines)
    /\ UNCHANGED <<lines, found>>
    /\ UNCHANGED mainvars

NextLoad == CallFind \/ CallLoad

SpecLoad == InitLoad /\ [][NextLoad]_vars

\* ------------------------------------------------------------------------
\* main
\* ------------------------------------------------------------------------

Init ==
    /\ lines = <<>>
    /\ found = NotCalled
    /\ loaded = NotLoaded
    /\ \E argv \in ArgLists : ProcessStart(argv)

Msg(kind, what) == [kind |-> kind, what |-> what]

\* sys.exit(code), or the end of main() with code 0, or an exception nobody
\* catches, which ends the interpreter with code 1.
Exit(code) ==
    /\ pc' = "exit"
    /\ exit_code' = code

\* if not args: usage, sys.exit(1)
MainUsage ==
    /\ pc = "main"
    /\ args = <<>>
    /\ printed' = Append(printed, Msg("usage", <<>>))
    /\ Exit(1)
    /\ UNCHANGED <<args, files, i, xlabel, ylabel, data_list, k, offset, plotted,
                   axes, shown>>
    /\ UNCHANGED loadvars

\* --diff with another number of file names than two
MainDiffUsage ==
    /\ pc = "main"
    /\ args # <<>>
    /\ args[1] = FlagDiff
    /\ Len(args) # 3
    /\ printed' = Append(printed, Msg("diff usage", <<>>))
    /\ Exit(1)
    /\ UNCHANGED <<args, files, i, xlabel, ylabel, data_list, k, offset, plotted,
                   axes, shown>>
    /\ UNCHANGED loadvars

\* plot_difference(args[1], args[2]) is entered
MainDiff ==
    /\ pc = "main"
    /\ args # <<>>
    /\ args[1] = FlagDiff
    /\ Len(args) = 3
    /\ pc' = "plot_difference"
    /\ files' = Tail(args)
    /\ UNCHANGED <<args, i, xlabel, ylabel, data_list, k, offset, plotted, axes,
                   printed, shown, exit_code>>
    /\ UNCHANGED loadvars

\* --waterfall without a file name
MainWaterfallUsage ==
    /\ pc = "main"
    /\ args # <<>>
    /\ args[1] = FlagWaterfall
    /\ Len(args) < 2
    /\ printed' = Append(printed, Msg("waterfall usage", <<>>))
    /\ Exit(1)
    /\ UNCHANGED <<args, files, i, xlabel, ylabel, data_list, k, offset, plotted,
                   axes, shown>>
    /\ UNCHANGED loadvars

\* plot_waterfall(args[1:]) is entered: xlabel, ylabel = "X", "Y"; data_list = []
MainWaterfall ==
    /\ pc = "main"
    /\ args # <<>>
    /\ args[1] = FlagWaterfall
    /\ Len(args) >= 2
    /\ pc' = "plot_waterfall"
    /\ files' = Tail(args)
    /\ i' = 1
    /\ xlabel' = <<"X">>
    /\ ylabel' = <<"Y">>
    /\ data_list' = <<>>
    /\ UNCHANGED <<args, k, offset, plotted, axes, printed, shown, exit_code>>
    /\ UNCHANGED loadvars

\* plot_multiple(args) is entered: xlabel, ylabel = "X", "Y"
MainMultiple ==
    /\ pc = "main"
    /\ args # <<>>
    /\ args[1] \notin {FlagDiff, FlagWaterfall}
    /\ pc' = "plot_multiple"
    /\ files' = args
    /\ i' = 1
    /\ xlabel' = <<"X">>
    /\ ylabel' = <<"Y">>
    /\ UNCHANGED <<args, data_list, k, offset, plotted, axes, printed, shown,
                   exit_code>>
    /\ UNCHANGED loadvars

\* ------------------------------------------------------------------------
\* plot_multiple
\* ------------------------------------------------------------------------

\* One turn of the loop on a file that does not exist: print, continue.
MultipleMissing ==
    /\ pc = "plot_multiple"
    /\ i <= Len(files)
    /\ ~exists(files[i])
    /\ printed' = Append(printed, Msg("file not found", files[i]))
    /\ i' = i + 1
    /\ UNCHANGED <<args, pc, files, xlabel, ylabel, data_list, k, offset, plotted,
                   axes, shown, exit_code>>
    /\ UNCHANGED loadvars

\* A wrong turn of the loop: the failure ends the loop.
MultipleLoadFailsBreak ==
    /\ pc = "plot_multiple"
    /\ i <= Len(files)
    /\ exists(files[i])
    /\ load_path(files[i]).raised # "none"
    /\ printed' = Append(printed, Msg("error reading", files[i]))
    /\ i' = Len(files) + 1
    /\ UNCHANGED <<args, pc, files, xlabel, ylabel, data_list, k, offset, plotted,
                   axes, shown, exit_code>>
    /\ UNCHANGED loadvars

\* One turn of the loop on a file load_data raises on: the tuple assignment
\* does not happen; print, continue.
MultipleLoadFails ==
    /\ pc = "plot_multiple"
    /\ i <= Len(files)
    /\ exists(files[i])
    /\ load_path(files[i]).raised # "none"
    /\ printed' = Append(printed, Msg("error reading", files[i]))
    /\ i' = i + 1
    /\ UNCHANGED <<args, pc, files, xlabel, ylabel, data_list, k, offset, plotted,
                   axes, shown, exit_code>>
    /\ UNCHANGED loadvars

\* A wrong turn of the loop: the labels of the file are dropped.
MultiplePlotDropsLabels ==
    /\ pc = "plot_multiple"
    /\ i <= Len(files)
    /\ exists(files[i])
    /\ LET res == load_path(files[i])
       IN  /\ res.raised = "none"
           /\ plotted' = Append(plotted, [src |-> files[i], x |-> AsRats(res.x),
                                          y |-> AsRats(res.y), label |-> files[i]])
    /\ i' = i + 1
    /\ UNCHANGED <<args, pc, files, xlabel, ylabel, data_list, k, offset, axes,
                   printed, shown, exit_code>>
    /\ UNCHANGED loadvars

\* One turn of the loop on a file that loads: x, y, xlabel, ylabel are
\* assigned and the series is plotted under the file's name.
MultiplePlot ==
    /\ pc = "plot_multiple"
    /\ i <= Len(files)
    /\ exists(files[i])
    /\ LET res == load_path(files[i])
       IN  /\ res.raised = "none"
           /\ xlabel' = res.xlabel
           /\ ylabel' = res.ylabel
           /\ plotted' = Append(plotted, [src |-> files[i], x |-> AsRats(res.x),
                                          y |-> AsRats(res.y), label |-> files[i]])
    /\ i' = i + 1
    /\ UNCHANGED <<args, pc, files, data_list, k, offset, axes, printed, shown,
                   exit_code>>
    /\ UNCHANGED loadvars

\* After the loop: plt.xlabel, plt.ylabel, legend, grid, plt.show(); main
\* returns.
MultipleShow ==
    /\ pc = "plot_multiple"
    /\ i > Len(files)
    /\ axes' = [xlabel |-> xlabel, ylabel |-> ylabel, set |-> TRUE]
    /\ shown' = TRUE
    /\ Exit(0)
    /\ UNCHANGED <<args, files, i, xlabel, ylabel, data_list, k, offset, plotted,
                   printed>>
    /\ UNCHANGED loadvars

\* ------------------------------------------------------------------------
\* plot_waterfall
\* ------------------------------------------------------------------------

\* scale_factor=.1
scale_factor == Rat(1, 10)

\* part in name
HasPart(name, part) == \E j \in 1..Len(name) : name[j] = part

\* name.split(part)[0]
BeforePart(name, part) ==
    IF HasPart(name, part)
    THEN SubSeq(name, 1, (CHOOSE j \in 1..Len(name) :
                             /\ name[j] = part
                             /\ \A h \in 1..(j - 1) : name[h] # part) - 1)
    ELSE name

\* name.replace(old, new)
ReplacePart(name, old, new) ==
    [j \in 1..Len(name) |-> IF name[j] = old THEN new ELSE name[j]]

\* The chain of special cases on the file name: the values to stack and the
\* legend label.
SpecialCase(name, y) ==
    IF HasPart(name, ".dofr")
    THEN [y |-> [j \in 1..Len(y) |-> RatMul(RatMul(y[j], FromInt(1)), Rat(1, 8))],
          label |-> BeforePart(name, ".dofr")]
    ELSE IF HasPart(name, "LTS_HME_PCM_AFF_")
    THEN [y |-> y,
          label |-> ReplacePart(BeforePart(name, "_2025"),
                                "LTS_HME_PCM_AFF_", "Long_term_storage_")]
    ELSE IF HasPart(name, "Paracetamol")
    THEN [y |-> y, label |-> <<"crystalline paracetamol">>]
    ELSE [y |-> y, label |-> BeforePart(name, "_2025")]

\* A wrong offset: the range of the last series only.
LastRangeOnly(off, y_range) == RatMul(y_range, scale_factor)

\* offset += y_range * scale_factor
NextOffset(off, y_range) == RatAdd(off, RatMul(y_range, scale_factor))

\* y + offset
Shifted(y, off) == [j \in 1..Len(y) |-> RatAdd(y[j], off)]

\* One turn of the first loop on a file that does not exist: print, continue.
WaterfallMissing ==
    /\ pc = "plot_waterfall"
    /\ i <= Len(files)
    /\ ~exists(files[i])
    /\ printed' = Append(printed, Msg("file not found", files[i]))
    /\ i' = i + 1
    /\ UNCHANGED <<args, pc, files, xlabel, ylabel, data_list, k, offset, plotted,
                   axes, shown, exit_code>>
    /\ UNCHANGED loadvars

\* One turn of the first loop on a file load_data raises on: print, continue.
WaterfallLoadFails ==
    /\ pc = "plot_waterfall"
    /\ i <= Len(files)
    /\ exists(files[i])
    /\ load_path(files[i]).raised # "none"
    /\ printed' = Append(printed, Msg("error reading", files[i]))
    /\ i' = i + 1
    /\ UNCHANGED <<args, pc, files, xlabel, ylabel, data_list, k, offset, plotted,
                   axes, shown, exit_code>>
    /\ UNCHANGED loadvars

\* One turn of the first loop on a file that loads: the labels are assigned
\* and (name, x, y) joins data_list.
WaterfallLoaded ==
    /\ pc = "plot_waterfall"
    /\ i <= Len(files)
    /\ exists(files[i])
    /\ LET res == load_path(files[i])
       IN  /\ res.raised = "none"
           /\ xlabel' = res.xlabel
           /\ ylabel' = res.ylabel
           /\ data_list' = Append(data_list,
                                  [name |-> files[i], x |-> res.x, y |-> res.y])
    /\ i' = i + 1
    /\ UNCHANGED <<args, pc, files, k, offset, plotted, axes, printed, shown,
                   exit_code>>
    /\ UNCHANGED loadvars

\* if not data_list: print, return; main returns without a plot.
WaterfallNoData ==
    /\ pc = "plot_waterfall"
    /\ i > Len(files)
    /\ data_list = <<>>
    /\ printed' = Append(printed, Msg("no valid data", <<>>))
    /\ Exit(0)
    /\ UNCHANGED <<args, files, i, xlabel, ylabel, data_list, k, offset, plotted,
                   axes, shown>>
    /\ UNCHANGED loadvars

\* offset = 0.0, and the second loop starts.
WaterfallStack ==
    /\ pc = "plot_waterfall"
    /\ i > Len(files)
    /\ data_list # <<>>
    /\ offset' = FromInt(0)
    /\ k' = 1
    /\ pc' = "waterfall_stack"
    /\ UNCHANGED <<args, files, i, xlabel, ylabel, data_list, plotted, axes,
                   printed, shown, exit_code>>
    /\ UNCHANGED loadvars

\* One turn of the second loop: the special cases, the range, the plot of
\* y + offset, the new offset.
WaterfallPlot ==
    /\ pc = "waterfall_stack"
    /\ k <= Len(data_list)
    /\ LET d == data_list[k]
           sc == SpecialCase(d.name, AsRats(d.y))
           y_range == RatSub(nanmax(sc.y), nanmin(sc.y))
       IN  /\ plotted' = Append(plotted, [src |-> d.name, x |-> AsRats(d.x),
                                          y |-> Shifted(sc.y, offset),
                                          label |-> sc.label])
           /\ offset' = NextOffset(offset, y_range)
    /\ k' = k + 1
    /\ UNCHANGED <<args, pc, files, i, xlabel, ylabel, data_list, axes, printed,
                   shown, exit_code>>
    /\ UNCHANGED loadvars

\* After the second loop: plt.xlabel, plt.ylabel, legend, grid, plt.show().
WaterfallShow ==
    /\ pc = "waterfall_stack"
    /\ k > Len(data_list)
    /\ axes' = [xlabel |-> xlabel, ylabel |-> ylabel, set |-> TRUE]
    /\ shown' = TRUE
    /\ Exit(0)
    /\ UNCHANGED <<args, files, i, xlabel, ylabel, data_list, k, offset, plotted,
                   printed>>
    /\ UNCHANGED loadvars

\* ------------------------------------------------------------------------
\* plot_difference
\* ------------------------------------------------------------------------

\* Whether numpy broadcasts two one-dimensional arrays of these lengths.
Broadcastable(n, m) == n = m \/ n = 1 \/ m = 1

\* Element j of a one-dimensional array broadcast to a longer one.
Bc(a, j) == IF Len(a) = 1 THEN a[1] ELSE a[j]

BcLen(a, b) == IF Len(a) >= Len(b) THEN Len(a) ELSE Len(b)

\* np.isclose(a, b) with the defaults rtol=1e-05, atol=1e-08:
\* |a - b| <= atol + rtol * |b|, which for whole numbers a and b is
\* 100000 * |a - b| <= |b|.
isclose(a, b) == Abs(a - b) <= Abs(b) \div 100000

\* np.allclose(a, b) for arrays that broadcast.
allclose(a, b) == \A j \in 1..BcLen(a, b) : isclose(Bc(a, j), Bc(b, j))

\* np.interp(x, xp, fp) at one point x, for an increasing xp: the end
\* values outside xp, the chord between the two neighbours inside.
interp(x, xp, fp) ==
    IF x <= xp[1] THEN FromInt(fp[1])
    ELSE IF x >= xp[Len(xp)] THEN FromInt(fp[Len(fp)])
    ELSE LET j == CHOOSE j \in 1..(Len(xp) - 1) : xp[j] <= x /\ x < xp[j + 1]
         IN  RatAdd(FromInt(fp[j]),
                    Rat((x - xp[j]) * (fp[j + 1] - fp[j]), xp[j + 1] - xp[j]))

\* A wrong end for missing files: a plain return.
DiffMissingReturns ==
    /\ pc = "plot_difference"
    /\ ~exists(files[1]) \/ ~exists(files[2])
    /\ printed' = Append(printed, Msg("one or both files not found", <<>>))
    /\ Exit(0)
    /\ UNCHANGED <<args, files, i, xlabel, ylabel, data_list, k, offset, plotted,
                   axes, shown>>
    /\ UNCHANGED loadvars

\* One of the two files does not exist: print, sys.exit(1).
DiffMissing ==
    /\ pc = "plot_difference"
    /\ ~exists(files[1]) \/ ~exists(files[2])
    /\ printed' = Append(printed, Msg("one or both files not found", <<>>))
    /\ Exit(1)
    /\ UNCHANGED <<args, files, i, xlabel, ylabel, data_list, k, offset, plotted,
                   axes, shown>>
    /\ UNCHANGED loadvars

\* load_data raises on the first file, or on the second after the first has
\* loaded: nothing catches the exception.
DiffLoadFails ==
    /\ pc = "plot_difference"
    /\ exists(files[1]) /\ exists(files[2])
    /\ LET r1 == load_path(files[1])
           r2 == load_path(files[2])
       IN  /\ r1.raised # "none" \/ r2.raised # "none"
           /\ printed' = Append(printed,
                  Msg("traceback", IF r1.raised # "none" THEN r1.raised ELSE r2.raised))
           /\ IF r1.raised = "none"
              THEN xlabel' = r1.xlabel /\ ylabel' = r1.ylabel
              ELSE UNCHANGED <<xlabel, ylabel>>
    /\ Exit(1)
    /\ UNCHANGED <<args, files, i, data_list, k, offset, plotted, axes, shown>>
    /\ UNCHANGED loadvars

\* Both files load and np.allclose(x1, x2) raises ValueError, the two grids
\* having lengths that do not broadcast: nothing catches the exception.
DiffShapeError ==
    /\ pc = "plot_difference"
    /\ exists(files[1]) /\ exists(files[2])
    /\ LET r1 == load_path(files[1])
           r2 == load_path(files[2])
       IN  /\ r1.raised = "none" /\ r2.raised = "none"
           /\ ~Broadcastable(Len(r1.x), Len(r2.x))
           /\ xlabel' = r1.xlabel
           /\ ylabel' = r1.ylabel
    /\ printed' = Append(printed, Msg("traceback", "operands could not be broadcast"))
    /\ Exit(1)
    /\ UNCHANGED <<args, files, i, data_list, k, offset, plotted, axes, shown>>
    /\ UNCHANGED loadvars

\* Both files load and the grids compare: y2 is interpolated onto x1 unless
\* the grids are close, the difference is plotted against x1 and shown.
DiffPlot ==
    /\ pc = "plot_difference"
    /\ exists(files[1]) /\ exists(files[2])
    /\ LET r1 == load_path(files[1])
           r2 == load_path(files[2])
       IN  /\ r1.raised = "none" /\ r2.raised = "none"
           /\ Broadcastable(Len(r1.x), Len(r2.x))
           /\ LET y2_interp ==
                      IF ~allclose(r1.x, r2.x)
                      THEN [j \in 1..Len(r1.x) |-> interp(r1.x[j], r2.x, r2.y)]
                      ELSE AsRats(r2.y)
                  y_diff == [j \in 1..BcLen(r1.y, y2_interp) |->
                                RatSub(FromInt(Bc(r1.y, j)), Bc(y2_interp, j))]
              IN  plotted' = Append(plotted, [src |-> files[1], x |-> AsRats(r1.x),
                                              y |-> y_diff,
                                              label |-> files[1] \o <<" - ">> \o files[2]])
           /\ xlabel' = r1.xlabel
           /\ ylabel' = r1.ylabel
           /\ axes' = [xlabel |-> r1.xlabel, ylabel |-> <<"Delta">> \o r1.ylabel,
                       set |-> TRUE]
    /\ shown' = TRUE
    /\ Exit(0)
    /\ UNCHANGED <<args, files, i, data_list, k, offset, printed>>
    /\ UNCHANGED loadvars

\* ------------------------------------------------------------------------
\* The process
\* ------------------------------------------------------------------------

Next ==
    \/ MainUsage
    \/ MainDiffUsage
    \/ MainDiff
    \/ MainWaterfallUsage
    \/ MainWaterfall
    \/ MainMultiple
    \/ MultipleMissing
    \/ MultipleLoadFails
    \/ MultiplePlot
    \/ MultipleShow
    \/ WaterfallMissing
    \/ WaterfallLoadFails
    \/ WaterfallLoaded
    \/ WaterfallNoData
    \/ WaterfallStack
    \/ WaterfallPlot
    \/ WaterfallShow
    \/ DiffMissing
    \/ DiffLoadFails
    \/ DiffShapeError
    \/ DiffPlot

Spec == Init /\ [][Next]_vars

\* ------------------------------------------------------------------------
\* Vocabulary of the properties
\* ------------------------------------------------------------------------

SetMin(S) == CHOOSE m \in S : \A n \in S : m <= n
SetMax(S) == CHOOSE m \in S : \A n \in S : n <= m

\* The positions of s where a piece starts when s is cut at every maximal
\* run of separators: position 1, and every position that follows a run.
PieceStarts(s, seps) ==
    {1} \cup {p \in 2..(Len(s) + 1) :
                 s[p - 1] \in seps /\ (p = Len(s) + 1 \/ s[p] \notin seps)}

\* The piece that starts at p: the characters up to the next separator.
PieceAt(s, seps, p) ==
    SubSeq(s, p, SetMin({q \in p..Len(s) : s[q] \in seps} \cup {Len(s) + 1}) - 1)

\* The pieces of s in order.
Pieces(s, seps) ==
    LET starts == PieceStarts(s, seps)
    IN  [n \in 1..Cardinality(starts) |->
            PieceAt(s, seps, CHOOSE p \in starts :
                                Cardinality({q \in starts : q < p}) = n - 1)]

\* A line that, stripped and split on runs of commas and whitespace, is not
\* empty and has only pieces that parse as numbers.
FullyNumeric(line) ==
    /\ strip(line) # <<>>
    /\ \A t \in {Pieces(strip(line), CommaOrSpace)[n] :
                    n \in 1..Len(Pieces(strip(line), CommaOrSpace))} : IsFloat(t)

\* A line of numbers separated by whitespace only.
WhitespaceRow(line) ==
    /\ strip(line) # <<>>
    /\ \A t \in {Pieces(strip(line), Whitespace)[n] :
                    n \in 1..Len(Pieces(strip(line), Whitespace))} : IsFloat(t)

\* The numbers of a row, for either kind of separator.
RowValues(line) ==
    [n \in 1..Len(Pieces(strip(line), CommaOrSpace)) |->
        ToFloat(Pieces(strip(line), CommaOrSpace)[n])]

\* The 1-based positions of the fully numeric lines of the file.
NumericLines == {j \in 1..Len(lines) : FullyNumeric(lines[j])}

\* The 1-based position of the first of them.
DataStart == SetMin(NumericLines)

IsMarked(line) == startswith(strip(line), <<"#", "L">>)

\* The label lines before the data start.
MarkedBefore == {j \in 1..(DataStart - 1) : IsMarked(lines[j])}

\* The text of the last label line before the data start, "" without one.
LabelText ==
    IF MarkedBefore = {} THEN <<>>
    ELSE LET l == strip(lines[SetMax(MarkedBefore)])
         IN  strip(SubSeq(l, 3, Len(l)))

\* The tokens of the label text as the split yields them, and those of them
\* that are not empty.
LabelPieces == Pieces(LabelText, CommaOrSpace)
LabelTokens == SelectSeq(LabelPieces, NonEmpty)

\* The rows of the data block, and whether each is of a kind.
DataRows == DataStart..Len(lines)

\* ------------------------------------------------------------------------
\* Properties of the parser (checked under SpecLoad)
\* ------------------------------------------------------------------------

\* C1: find_labels_and_data_start returns as data start the smallest index of
\* a fully numeric line and as label text the stripped remainder of the last
\* "#L" line before it ("" without one; "#L" lines after it are ignored); it
\* fails with "No numeric data found" when no line is fully numeric.
C1_DataStartAndLabel ==
    found # NotCalled =>
        IF NumericLines = {}
        THEN found.raised = NoNumericData
        ELSE /\ found.raised = "none"
             /\ found.data_start_idx = DataStart - 1
             /\ found.label_line = LabelText

\* C1 case: a label line, then the data start, then another label line that
\* is ignored.
C1_Witness ==
    /\ found.raised = "none"
    /\ found.data_start_idx = 1
    /\ Len(lines) = 3
    /\ IsMarked(lines[1])
    /\ IsMarked(lines[3])
    /\ lines[1] # lines[3]
    /\ found.label_line = <<"q", " ", "I">>

\* C2: when load_data succeeds on a file whose data block is whitespace-
\* delimited numeric rows, x and y have the length of the block, which is
\* not zero, x[r] and y[r] are the first and second number of row r, and
\* xlabel, ylabel are the first and second token of the label line.
C2_SeriesOfRows ==
    (/\ loaded.raised = "none"
     /\ \A j \in DataRows : WhitespaceRow(lines[j]))
    =>
    /\ Len(loaded.x) = Len(lines) - DataStart + 1
    /\ Len(loaded.y) = Len(loaded.x)
    /\ Len(loaded.x) > 0
    /\ \A r \in 1..Len(loaded.x) :
          /\ loaded.x[r] = RowValues(lines[DataStart + r - 1])[1]
          /\ loaded.y[r] = RowValues(lines[DataStart + r - 1])[2]
    /\ (MarkedBefore # {} /\ Len(LabelPieces) >= 2) =>
          /\ loaded.xlabel = LabelPieces[1]
          /\ loaded.ylabel = LabelPieces[2]

\* C2 case: a label line of two tokens and two rows, one of them padded and
\* tab-separated.
C2_Witness ==
    /\ loaded.raised = "none"
    /\ loaded.x = <<1, 2>>
    /\ loaded.y = <<2, -5>>
    /\ loaded.xlabel = <<"t">>
    /\ loaded.ylabel = <<"s">>

\* C3: load_data returns xlabel "X" when the label line has no token (also
\* when the file has no "#L" line), and ylabel "Y" when it has fewer than two.
C3_DefaultLabels ==
    loaded.raised = "none" =>
        /\ Len(LabelTokens) = 0 => loaded.xlabel = <<"X">>
        /\ Len(LabelTokens) < 2 => loaded.ylabel = <<"Y">>

\* C4: on a data block of one or more numeric rows of one width, load_data
\* fails with the two-columns error exactly when the width is below two; a
\* single row of two columns loads as a series of length 1.
C4_TwoColumnsIffNarrow ==
    (/\ loaded # NotLoaded
     /\ NumericLines # {}
     /\ \A j \in DataRows : WhitespaceRow(lines[j])
     /\ \A j \in DataRows : Len(RowValues(lines[j])) = Len(RowValues(lines[DataStart])))
    =>
    /\ loaded.raised = TwoColumnsError <=> Len(RowValues(lines[DataStart])) < 2
    /\ (Len(lines) = DataStart /\ Len(RowValues(lines[DataStart])) = 2) =>
          /\ loaded.raised = "none"
          /\ Len(loaded.x) = 1

\* C5: every line the locator takes for numeric the loader accepts too, so
\* a block of comma-delimited rows of two numbers loads with the values of
\* its rows.
C5_CommaRowsLoad ==
    (/\ loaded # NotLoaded
     /\ NumericLines # {}
     /\ \A j \in DataRows : FullyNumeric(lines[j]))
    =>
    /\ loaded.raised # ReadError
    /\ (/\ Len(lines) > DataStart
        /\ \A j \in DataRows : Len(RowValues(lines[j])) = 2)
       =>
       /\ loaded.raised = "none"
       /\ loaded.x = [r \in 1..(Len(lines) - DataStart + 1) |->
                         RowValues(lines[DataStart + r - 1])[1]]
       /\ loaded.y = [r \in 1..(Len(lines) - DataStart + 1) |->
                         RowValues(lines[DataStart + r - 1])[2]]

\* ------------------------------------------------------------------------
\* Vocabulary of the properties of the process
\* ------------------------------------------------------------------------

Flags == {FlagDiff, FlagWaterfall}

\* The four shapes of the command line that reach a renderer.
SingleFileMode == Len(args) = 1 /\ args[1] \notin Flags
OverlayMode == args # <<>> /\ args[1] \notin Flags
WaterfallMode == Len(args) >= 2 /\ args[1] = FlagWaterfall
DiffMode == Len(args) = 3 /\ args[1] = FlagDiff

Terminated == pc = "exit"

\* A file that exists and loads.
Good(path) == exists(path) /\ load_path(path).raised = "none"

\* A file that exists and has unparseable data, or too few columns.
Unparseable(path) ==
    exists(path) /\ load_path(path).raised \in {NoNumericData, ReadError}
TooNarrow(path) ==
    exists(path) /\ load_path(path).raised = TwoColumnsError

\* The file arguments of the command line.
FileArgs == IF args # <<>> /\ args[1] \in Flags THEN Tail(args) ELSE args

\* The files of a list that the loop of a multi-file mode plots.
GoodFiles(fs) == SelectSeq(fs, Good)

\* The position of the last of the first n file arguments that loads, 0 if
\* none does.
RECURSIVE LastGood(_)
LastGood(n) ==
    IF n = 0 THEN 0
    ELSE IF Good(FileArgs[n]) THEN n ELSE LastGood(n - 1)

\* max(y) - min(y) of a series of fractions.
RangeOf(y) == RatSub(nanmax(y), nanmin(y))

\* The loaded y values of a file that loads.
LoadedY(path) == AsRats(load_path(path).y)

\* The same, divided by 8 for a ".dofr" file.
StackedY(path) ==
    IF HasPart(path, ".dofr")
    THEN [n \in 1..Len(load_path(path).y) |-> Rat(load_path(path).y[n], 8)]
    ELSE LoadedY(path)

\* The sum of the ranges of the first n series of a list.
RECURSIVE SumOfRanges(_, _)
SumOfRanges(ys, n) ==
    IF n = 0 THEN FromInt(0)
    ELSE RatAdd(SumOfRanges(ys, n - 1), RangeOf(ys[n]))

\* Series number n of ys, raised by scale_factor times the sum of the ranges
\* of the series before it.
Raised(ys, n) ==
    Shifted(ys[n], RatMul(scale_factor, SumOfRanges(ys, n - 1)))

\* ------------------------------------------------------------------------
\* Properties of the process (checked under Spec)
\* ------------------------------------------------------------------------

\* C6 as stated: the process ends with exit code 1 and without a plot when
\* there are no arguments, and in single-file mode and in --diff mode when a
\* file is missing, has unparseable data or has fewer than two columns.
C6_ExitOneAsStated ==
    (/\ Terminated
     /\ \/ args = <<>>
        \/ /\ SingleFileMode \/ DiffMode
           /\ \E j \in 1..Len(FileArgs) :
                 \/ ~exists(FileArgs[j])
                 \/ Unparseable(FileArgs[j])
                 \/ TooNarrow(FileArgs[j]))
    => (exit_code = 1 /\ ~shown)

\* C6 amended: the process ends with exit code 1 and without a plot when
\* there are no arguments, and in --diff mode when a file is missing, has
\* unparseable data or has fewer than two columns; in single-file mode such
\* a file is reported and skipped, an empty figure is shown and the exit
\* code is 0.
C6_ExitOneInDiffMode ==
    /\ (/\ Terminated
        /\ \/ args = <<>>
           \/ /\ DiffMode
              /\ \E j \in 1..Len(FileArgs) :
                    \/ ~exists(FileArgs[j])
                    \/ Unparseable(FileArgs[j])
                    \/ TooNarrow(FileArgs[j]))
       => (exit_code = 1 /\ ~shown)
    /\ (/\ Terminated
        /\ SingleFileMode
        /\ ~Good(FileArgs[1]))
       => (exit_code = 0 /\ shown /\ plotted = <<>> /\ Len(printed) = 1)

\* C6 case: --diff on a file that loads and a file of one column.
C6_Witness ==
    /\ Terminated
    /\ DiffMode
    /\ Good(FileArgs[1])
    /\ TooNarrow(FileArgs[2])
    /\ exit_code = 1
    /\ ~shown

\* C7: in the overlay and waterfall modes the series plotted are those of
\* the files that exist and load, one each, in argument order, and every
\* other file is reported.
C7_PlotsExactlyGoodFiles ==
    (Terminated /\ (OverlayMode \/ WaterfallMode))
    =>
    LET loads == GoodFiles(FileArgs)
        others == SelectSeq(FileArgs, LAMBDA f : ~Good(f))
    IN  /\ [j \in 1..Len(plotted) |-> plotted[j].src] = loads
        /\ \A j \in 1..Len(plotted) :
              /\ plotted[j].x = AsRats(load_path(plotted[j].src).x)
              /\ OverlayMode => plotted[j].y = LoadedY(plotted[j].src)
        /\ Len(printed) >= Len(others)
        /\ [j \in 1..Len(others) |-> printed[j].what] = others

\* C7 case: an overlay of four files, the first unloadable, the third
\* missing, the other two plotted.
C7_Witness ==
    /\ Terminated
    /\ OverlayMode
    /\ Len(FileArgs) = 4
    /\ Unparseable(FileArgs[1])
    /\ Good(FileArgs[2])
    /\ ~exists(FileArgs[3])
    /\ Good(FileArgs[4])
    /\ Len(plotted) = 2
    /\ shown

\* C8 as stated: series number n of the waterfall is its loaded y plus
\* scale_factor times the sum of the ranges of the loaded y of the series
\* before it, whatever the file names.
C8_OffsetsAsStated ==
    (WaterfallMode /\ pc \in {"waterfall_stack", "exit"})
    =>
    LET loads == GoodFiles(FileArgs)
        ys == [j \in 1..Len(loads) |-> LoadedY(loads[j])]
    IN  \A n \in 1..Len(plotted) : plotted[n].y = Raised(ys, n)

\* C8 amended: series number n of the waterfall is its y plus scale_factor
\* times the sum of the ranges of the y of the series before it, where the
\* y of a file with ".dofr" in its name are its loaded values divided by 8
\* and the y of any other file are its loaded values.
C8_OffsetsOfStackedValues ==
    (WaterfallMode /\ pc \in {"waterfall_stack", "exit"})
    =>
    LET loads == GoodFiles(FileArgs)
        ys == [j \in 1..Len(loads) |-> StackedY(loads[j])]
    IN  \A n \in 1..Len(plotted) : plotted[n].y = Raised(ys, n)

\* C8 case: a waterfall of three series, the third raised by the ranges of
\* the first two, which differ.
C8_Witness ==
    /\ Terminated
    /\ WaterfallMode
    /\ Len(plotted) = 3
    /\ shown
    /\ RangeOf(StackedY(plotted[1].src)) # RangeOf(StackedY(plotted[2].src))
    /\ RangeOf(StackedY(plotted[2].src)) # FromInt(0)
    /\ HasPart(plotted[2].src, ".dofr")

\* C9: --diff on two files that load never fails and plots, against x1,
\* y1 - y2 when the grids are identical and y1 minus the interpolation of
\* (x2, y2) at x1 when they differ in values or in length.
C9_DifferenceOfValidFiles ==
    (/\ Terminated
     /\ DiffMode
     /\ Good(FileArgs[1])
     /\ Good(FileArgs[2]))
    =>
    LET f1 == load_path(FileArgs[1])
        f2 == load_path(FileArgs[2])
    IN  /\ exit_code = 0
        /\ shown
        /\ Len(plotted) = 1
        /\ plotted[1].x = AsRats(f1.x)
        /\ Len(plotted[1].y) = Len(f1.x)
        /\ \A n \in 1..Len(f1.x) :
              plotted[1].y[n] =
                  IF f1.x = f2.x
                  THEN FromInt(f1.y[n] - f2.y[n])
                  ELSE RatSub(FromInt(f1.y[n]), interp(f1.x[n], f2.x, f2.y))

\* C10: in the overlay and waterfall loops xlabel and ylabel are those of
\* the last file so far that loaded, "X" and "Y" while none has; a file that
\* is missing or fails to load leaves them alone; the figure gets them.
C10_LabelsOfLastGoodFile ==
    (/\ OverlayMode \/ WaterfallMode
     /\ pc \in {"plot_multiple", "plot_waterfall", "waterfall_stack", "exit"})
    =>
    LET last == LastGood(i - 1)
        labels == IF last = 0
                  THEN [xlabel |-> <<"X">>, ylabel |-> <<"Y">>]
                  ELSE load_path(FileArgs[last])
    IN  /\ xlabel = labels.xlabel
        /\ ylabel = labels.ylabel
        /\ axes.set => (axes.xlabel = xlabel /\ axes.ylabel = ylabel)
        /\ (Terminated /\ last # 0) => axes.set

\* C10 case: two files with different labels load, then a file fails; the
\* figure has the labels of the second.
C10_Witness ==
    /\ Terminated
    /\ OverlayMode
    /\ Len(FileArgs) = 3
    /\ Good(FileArgs[1])
    /\ Good(FileArgs[2])
    /\ ~Good(FileArgs[3])
    /\ load_path(FileArgs[1]).xlabel # load_path(FileArgs[2]).xlabel
    /\ axes.set
    /\ axes.xlabel = load_path(FileArgs[2]).xlabel
    /\ axes.ylabel = load_path(FileArgs[2]).ylabel

====
